---- MODULE Spec2Model ----
(***************************************************************************)
(* PollSystem+ : the file-backed store (src/storage/memoryStorage.js), the *)
(* user service and the poll service, as concurrent request handlers.      *)
(*                                                                         *)
(* Every request is an async function.  Code between two awaits runs       *)
(* atomically on the event loop; every await of the store is a file        *)
(* operation run by the thread pool, so requests interleave at the file    *)
(* operations.  fs.readFile of the (small) document is one step.           *)
(* fs.writeFile is two: open with flag 'w' (creates / truncates the file)  *)
(* and the write of the text at offset 0.  The synchronous prefix of a     *)
(* handler is merged with its first file operation, and the synchronous    *)
(* suffix with its last one: they touch only the handler's locals.         *)
(*                                                                         *)
(* Strings are sequences of one-character strings, so that trim() is       *)
(* computed and not assumed.                                               *)
(***************************************************************************)
EXTENDS Integers, Sequences, FiniteSets, TLC

\* ---------------------------------------------------------------- bounds
NumProcs == 2      \* requests that can be in flight at once
MaxOps   == 3      \* requests started in one behaviour
MaxPolls == 1      \* ids the uuid generator hands out in one behaviour
MaxCalls == 4      \* calls of the in-memory PollManager in one behaviour

Procs == 1..NumProcs

\* ---------------------------------------------------------------- inputs
\* Caller-supplied option indexes: JavaScript values.  A number is its
\* integer part and whether it is an integer (frac = FALSE).
Num(n)      == [type |-> "number", val |-> n, frac |-> FALSE]
Frac(n)     == [type |-> "number", val |-> n, frac |-> TRUE]
StrIndex    == [type |-> "string", val |-> 0, frac |-> FALSE]
Undefined   == [type |-> "undefined", val |-> 0, frac |-> FALSE]

TwoOptions   == << <<"x">>, <<"y">> >>
ThreeOptions == << <<"x">>, <<"y">>, <<"z">> >>

\* Options with surrounding whitespace, options that are equal after
\* trimming, and options that are blank (and so also equal after trimming).
PaddedOptions    == << <<"x", " ">>, <<" ", "y">> >>
DuplicateOptions == << <<"x">>, <<" ", "x">> >>
BlankOptions     == << <<" ">>, <<" ">> >>

\* Usernames that read like a part of an error message, or like a property
\* every JavaScript object inherits.
NotFoundName    == <<"n", "o", "t", " ", "f", "o", "u", "n", "d">>
ConstructorName == <<"c", "o", "n", "s", "t", "r", "u", "c", "t", "o", "r">>
ToStringName    == <<"t", "o", "S", "t", "r", "i", "n", "g">>
ProtoName       == <<"_", "_", "p", "r", "o", "t", "o", "_", "_">>

\* Values that are not strings: a sequence of one element that names the
\* value (a string is a sequence of characters).  JsNumber is the number 7
\* and JsObject the object {}.
JsNull      == <<"null">>
JsUndefined == <<"undefined">>
JsNumber    == <<"number">>
JsObject    == <<"object">>

\* Options one of which is not a string.
MixedOptions == << <<"x">>, JsNumber >>

\* What callers send while requests overlap: two usernames, a valid index
\* and one that is valid for three options only.  Poll ids are the n-th
\* uuid generated.
ConcurrentInputs ==
    [usernames   |-> { <<"a">>, <<"b">> },
     questions   |-> { <<"q">> },
     optionLists |-> { TwoOptions, ThreeOptions },
     indexes     |-> { Num(0), Num(2) },
     pollIds     |-> 1..MaxPolls,
     nonStrings  |-> {},
     queryNames  |-> { <<"a">> },
     overlap     |-> TRUE]

\* What callers send one request at a time: also a username with
\* surrounding whitespace, a blank and an empty one, option lists that
\* validation rejects, indexes of every kind, an id never generated, a
\* username that contains the words of another error and one that names an
\* inherited property.
SequentialInputs ==
    [usernames   |-> { <<"a">>, <<"b">>, <<"a", " ">>, <<" ">>, <<>>,
                       NotFoundName, ConstructorName },
     questions   |-> { <<"q", " ">>, <<" ">>, <<>> },
     optionLists |-> { TwoOptions, ThreeOptions, PaddedOptions,
                       DuplicateOptions, BlankOptions, MixedOptions,
                       << <<"x">> >> },
     indexes     |-> { Num(0), Num(2), Num(-1), Frac(0), StrIndex,
                       Undefined },
     pollIds     |-> 1..(MaxPolls + 1),
     nonStrings  |-> { JsNull, JsUndefined, JsNumber, JsObject },
     queryNames  |-> { <<"a">>, <<"b">>, <<"a", " ">>, <<" ">>,
                       ConstructorName },
     overlap     |-> FALSE]

\* ------------------------------------------------------- string helpers
RECURSIVE TrimStart(_)
TrimStart(s) == IF s # <<>> /\ Head(s) = " " THEN TrimStart(Tail(s)) ELSE s

RECURSIVE TrimEnd(_)
TrimEnd(s) == IF s # <<>> /\ s[Len(s)] = " "
              THEN TrimEnd(SubSeq(s, 1, Len(s) - 1)) ELSE s

\* String.prototype.trim
Trim(s) == TrimEnd(TrimStart(s))

\* typeof v
TypeOf(v) ==
    IF \A i \in 1..Len(v) : Len(v[i]) = 1 THEN "string"
    ELSE IF v = JsNull THEN "object"
    ELSE v[1]

\* !s for a string, null, undefined, a non-zero number or an object
Falsy(s) == s = <<>> \/ s = JsNull \/ s = JsUndefined

\* The characters of s as one string, for template literals
RECURSIVE Str(_)
Str(s) == IF s = <<>> THEN "" ELSE Head(s) \o Str(Tail(s))

\* String.prototype.includes
Includes(text, pattern) ==
    \E i \in 1..(Len(text) - Len(pattern) + 1) :
        SubSeq(text, i, i + Len(pattern) - 1) = pattern

RECURSIVE FnSum(_)
FnSum(f) == IF DOMAIN f = {} THEN 0
            ELSE LET x == CHOOSE y \in DOMAIN f : TRUE
                 IN  f[x] + FnSum([y \in DOMAIN f \ {x} |-> f[y]])

\* --------------------------------------------- documents and conversions
\* In memory a poll's votes are a Map (username -> index): a function.
\* In the file they are a plain object: a set of <<key, value>> entries.
EmptyData == [users |-> << >>, polls |-> << >>]

\* ObjectFromEntries that skips the entries with a falsy value (index 0).
ObjectFromTruthyEntries(m) ==
    { <<k, m[k]>> : k \in { x \in DOMAIN m : m[x] # 0 } }

\* Object.fromEntries(map)
ObjectFromEntries(m) == { <<k, m[k]>> : k \in DOMAIN m }

\* new Map(Object.entries(obj))
MapFromObject(o) == [k \in { e[1] : e \in o } |->
                        (CHOOSE e \in o : e[1] = k)[2]]

\* Names that every object made by JSON.parse or by an object literal
\* inherits from Object.prototype (three of them), and what obj[name] then
\* is: a function or an object, which is truthy.
ObjectPrototypeKeys == { ConstructorName, ToStringName, ProtoName }
Inherited(key) == [inherited |-> key]

\* The keys of data.polls: n >= 1 is the n-th uuid, ConstructorId the id
\* "constructor", ProtoId the id "__proto__", and NameId(f) the key that is
\* the property name f of a poll.
ConstructorId == 0
ProtoId       == -1
PropertyNames == <<"id", "question", "options", "creator", "votes">>
NameId(f)     == -1 - (CHOOSE i \in DOMAIN PropertyNames : PropertyNames[i] = f)
IdChars(id)   == IF id = ProtoId THEN ProtoName
                 ELSE IF id = ConstructorId THEN ConstructorName
                 ELSE [i \in 1..36 |-> "0"]

\* data.polls["__proto__"] = poll replaces the prototype of data.polls when
\* Object.prototype has the __proto__ accessor; the object keeps its own
\* properties. In memory the key ProtoId holds that prototype.
HasPrototype(polls) ==
    ProtoId \in DOMAIN polls /\ ProtoName \in ObjectPrototypeKeys

\* for (const pollId in data.polls): the own keys, then the enumerable
\* keys of a replaced prototype that no own key shadows.
OwnKeys(polls) == IF HasPrototype(polls) THEN DOMAIN polls \ {ProtoId}
                  ELSE DOMAIN polls
ForInKeys(polls) ==
    OwnKeys(polls) \cup
    (IF HasPrototype(polls)
     THEN { NameId(f) : f \in DOMAIN polls[ProtoId] } ELSE {})

\* {...value} for a property value of a poll: the characters of a string
\* and the elements of an array under their indexes, nothing for a Map.
Indexed(seq) ==
    [k \in { ToString(i - 1) : i \in DOMAIN seq } |->
        seq[CHOOSE i \in DOMAIN seq : ToString(i - 1) = k]]
Characters(string) == [i \in DOMAIN string |-> <<string[i]>>]
SpreadValue(f, value) ==
    CASE f = "id"      -> Indexed(Characters(IdChars(value)))
      [] f = "options" -> Indexed(value)
      [] f = "votes"   -> << >>
      [] OTHER         -> Indexed(Characters(value))

\* data.polls[pollId] inside writeData's loop, spread: the own poll, or
\* the spread value of the prototype's property of that name.
WrittenPoll(polls, id) ==
    IF id \in OwnKeys(polls) THEN polls[id]
    ELSE LET f == CHOOSE g \in DOMAIN polls[ProtoId] : NameId(g) = id
         IN  SpreadValue(f, polls[ProtoId][f])

\* writeData, lines 48-58: the object handed to JSON.stringify
DataToWrite(data) ==
    [users |-> data.users,
     polls |-> [id \in ForInKeys(data.polls) |->
                  LET poll == WrittenPoll(data.polls, id)
                  IN  [f \in DOMAIN poll \cup {"votes"} |->
                         IF f # "votes" THEN poll[f]
                         ELSE IF id \in OwnKeys(data.polls)
                                 /\ "votes" \in DOMAIN poll
                         THEN ObjectFromEntries(poll.votes)
                         ELSE {}]]]

\* readData, lines 20-26: votes objects become Maps again
ParsedData(text) ==
    [users |-> text.users,
     polls |-> [id \in DOMAIN text.polls |->
                  [text.polls[id] EXCEPT !.votes = MapFromObject(@)]]]

\* Length of JSON.stringify(dataToWrite, null, 2) for ids of 36 characters
\* or the other keys of data.polls, one-digit indexes and strings that need
\* no escaping.
UuidLen == 36
JsonObjLen(entries, indent) ==
    IF DOMAIN entries = {} THEN 2
    ELSE 2 + FnSum([k \in DOMAIN entries |-> indent + 2 + entries[k] + 2]) - 2
           + 1 + indent + 1
JsonUserLen(u) == (Len(u) + 4) + JsonObjLen([f \in {"username"} |->
                                              12 + Len(u) + 2], 4)
JsonOptionsLen(opts) ==
    IF opts = <<>> THEN 2
    ELSE 2 + FnSum([i \in DOMAIN opts |-> 8 + Len(opts[i]) + 2 + 2]) - 2 + 1 + 6 + 1
JsonVotesLen(v) ==
    JsonObjLen([k \in { e[1] : e \in v } |-> (Len(k) + 4) + 1], 6)
IdLen(id) ==
    IF id >= 1 THEN UuidLen
    ELSE IF id >= ProtoId THEN Len(IdChars(id))
    ELSE <<2, 8, 7, 7, 5>>[-1 - id]
JsonPollLen(id, p) ==
    (IdLen(id) + 4) +
    JsonObjLen([f \in DOMAIN p |->
        CASE f = "id"       -> 6 + IdLen(p.id) + 2
          [] f = "question" -> 12 + Len(p.question) + 2
          [] f = "options"  -> 11 + JsonOptionsLen(p.options)
          [] f = "creator"  -> 11 + Len(p.creator) + 2
          [] f = "votes"    -> 9 + JsonVotesLen(p.votes)
          [] OTHER          -> 5 + Len(p[f]) + 2], 4)
JsonLen(text) ==
    2 + (11 + JsonObjLen([u \in DOMAIN text.users |-> JsonUserLen(u)], 2))
      + 2
      + (11 + JsonObjLen([id \in DOMAIN text.polls |->
                             JsonPollLen(id, text.polls[id])], 2))
      + 2

\* ------------------------------------------------------------------ state
VARIABLES
    file,      \* storage.json: [st, len, text]
    nextId,    \* uuids generated so far + 1
    pc,        \* per request slot: where its handler is
    loc,       \* per request slot: the handler's arguments and locals, and
               \* (before) the document the first read of a request that
               \* runs alone returned
    last,      \* the request answered last: slot, call, result
    nops,      \* requests started
    registered,\* usernames for which register returned a user
    created,   \* ids for which createPoll returned a poll
    createdWith,\* id -> the poll data that createPoll handed to the store
               \* for it, once createPoll has returned
    deleted,   \* ids for which deletePoll returned true
    okVotes,   \* <<id, username, index, n>>: the n-th vote of username
               \* on id that returned a poll
    torn,      \* a readData ran between the open and the write of a
               \* writeData and took the file for the empty document
    pollManager,\* the PollManager: [polls, counter]
    answered,  \* the PollManager call made last: call, result
    calls,     \* PollManager calls made
    made,      \* id -> the arguments of the createPoll that returned id
    cast       \* <<id, option>> -> the vote(id, option) calls that
               \* returned

vars == <<file, nextId, pc, loc, last, nops, registered, created, createdWith,
          deleted, okVotes, torn, pollManager, answered, calls, made, cast>>

\* The in-memory PollManager is not touched by the file-backed services,
\* nor the services' state by the PollManager.
ManagerUnchanged == UNCHANGED <<pollManager, answered, calls, made, cast>>
ServicesUnchanged ==
    UNCHANGED <<file, nextId, pc, loc, last, nops, registered, created,
                createdWith, deleted, okVotes, torn>>

EmptyText == DataToWrite(EmptyData)
NoFile    == [st |-> "absent", len |-> 0, text |-> EmptyText]
NoLoc     == [call |-> [op |-> "none"]]
NoLast    == [call |-> [op |-> "none"], res |-> [status |-> "none"]]

\* What a handler returns or throws.
Ok(v)            == [status |-> "ok", value |-> v]
Err(class, msg)  == [status |-> "err", class |-> class, msg |-> msg]
Business(msg)    == Err("BusinessLogicError", msg)

\* The n-th id uuidv4() returns, and `${optionIndex}` in a template literal.
Uuid(n) == "00000000-0000-4000-8000-00000000000" \o
               <<"1", "2", "3", "4", "5", "6", "7", "8", "9">>[n]
IndexText(optionIndex) ==
    CASE optionIndex.type = "undefined" -> "undefined"
      [] optionIndex.type = "string"    -> "0"
      [] optionIndex.frac               -> "0.5"
      [] optionIndex.val < 0            -> "-" \o <<"1", "2", "3">>[-optionIndex.val]
      [] OTHER -> <<"0", "1", "2", "3", "4">>[optionIndex.val + 1]

\* The errors the services and the store throw.
UsernameEmpty == Business("Username cannot be empty.")
AlreadyTaken(trimmedUsername) ==
    Business("Username \"" \o Str(trimmedUsername) \o "\" is already taken.")
AlreadyExists(username) ==
    Err("Error", "User with username \"" \o Str(username) \o "\" already exists.")
CreatorDoesNotExist(trimmedUsername) ==
    Business("User \"" \o Str(trimmedUsername) \o
             "\" does not exist and cannot create a poll.")
DeletionArgsRequired ==
    Business("Poll ID and requesting username are required for deletion.")
PollNotFound(pollId) ==
    Business("Poll with ID \"" \o Uuid(pollId) \o "\" not found.")
NotAuthorized(requestingUsername, pollId) ==
    Business("User \"" \o Str(requestingUsername) \o
             "\" is not authorized to delete poll \"" \o Uuid(pollId) \o "\".")
VoteArgsRequired ==
    Business("Poll ID, option index, and username are required to vote.")
UserNotFound(trimmedUsername) ==
    Business("User \"" \o Str(trimmedUsername) \o "\" not found.")
InvalidIndex(optionIndex, pollId) ==
    Business("Invalid option index \"" \o IndexText(optionIndex) \o
             "\" for poll \"" \o Uuid(pollId) \o "\".")
AlreadyVoted(trimmedUsername, pollId) ==
    Business("User \"" \o Str(trimmedUsername) \o
             "\" has already voted in poll \"" \o Uuid(pollId) \o "\".")
\* `${pollId}` for the ids a caller of the store passes
PollIdText(pollId) ==
    IF pollId = ConstructorId THEN "constructor"
    ELSE IF pollId = ProtoId THEN "__proto__"
    ELSE Uuid(pollId)
NotFoundForUpdate(pollId) ==
    Err("Error", "Poll with ID \"" \o PollIdText(pollId) \o
                 "\" not found for update.")

\* The file a run starts from: none (first use), one of zero bytes, one
\* that JSON.parse rejects, or the one an earlier run left after
\* register("a") and createPoll("q", ["x", "y"], "a").
EmptyFile   == [st |-> "bad", len |-> 0, text |-> EmptyText]
GarbageFile == [st |-> "bad", len |-> 1, text |-> EmptyText]
SeedData ==
    [users |-> (<<"a">> :> [username |-> <<"a">>]),
     polls |-> (1 :> [id |-> 1, question |-> <<"q">>, options |-> TwoOptions,
                      creator |-> <<"a">>, votes |-> << >>])]
SeedFile == [st |-> "json", len |-> JsonLen(DataToWrite(SeedData)),
             text |-> DataToWrite(SeedData)]

Init ==
    /\ \/ /\ file \in {NoFile, EmptyFile, GarbageFile}
          /\ nextId = 1
          /\ registered = {}
          /\ created = {}
          /\ createdWith = << >>
       \/ /\ file = SeedFile
          /\ nextId = 2
          /\ registered = DOMAIN SeedData.users
          /\ created = DOMAIN SeedData.polls
          /\ createdWith = [id \in DOMAIN SeedData.polls |->
                               [f \in {"id", "question", "options", "creator"} |->
                                   SeedData.polls[id][f]]]
    /\ pc = [p \in Procs |-> "idle"]
    /\ loc = [p \in Procs |-> NoLoc]
    /\ last = NoLast
    /\ nops = 0
    /\ deleted = {}
    /\ okVotes = {}
    /\ torn = FALSE
    /\ pollManager = [polls |-> << >>, counter |-> 1]
    /\ answered = NoLast
    /\ calls = 0
    /\ made = << >>
    /\ cast = << >>

\* The error handling middleware: the status answered for an error that a
\* route passed to next(error).
HttpStatus(err) ==
    IF err.class = "BusinessLogicError"
    THEN IF Includes(err.msg, "not found") \/ Includes(err.msg, "does not exist")
         THEN 404
         ELSE IF Includes(err.msg, "not authorized")
         THEN 403
         ELSE IF \/ Includes(err.msg, "already exists")
                 \/ Includes(err.msg, "already taken")
                 \/ Includes(err.msg, "already voted")
         THEN 400
         ELSE 400
    ELSE 500

\* ------------------------------------------------------------- the store
\* readData: the parsed document, or the default structure when the file
\* is missing (ENOENT) or JSON.parse throws a SyntaxError.
ReadData == IF file.st = "json" THEN ParsedData(file.text) ELSE EmptyData

\* A read that runs while a writeData has truncated the file and not yet
\* written it.
ReadsTorn == file.st = "bad" /\ \E q \in Procs : pc[q] = "w_flush"

\* data.polls[pollId]: the object's own property, else the inherited one
\* when the id is "constructor" or "__proto__"; {} stands for undefined.
Lookup(obj, key) ==
    IF key \in DOMAIN obj THEN {obj[key]}
    ELSE IF key \in {ConstructorId, ProtoId}
            /\ IdChars(key) \in ObjectPrototypeKeys
    THEN {Inherited(IdChars(key))}
    ELSE {}

\* data.users[username]: the own property, else the inherited one, else
\* undefined.
Property(obj, key) ==
    IF key \in DOMAIN obj THEN {obj[key]}
    ELSE IF key \in ObjectPrototypeKeys THEN {Inherited(key)}
    ELSE {}

FindUserByUsername(username) == Property(ReadData.users, username)
FindPollById(pollId)         == Lookup(ReadData.polls, pollId)

\* getAllPolls: Object.values(data.polls), as the set of its elements
GetAllPollsValues == { ReadData.polls[id] : id \in DOMAIN ReadData.polls }

\* fs.writeFile, first half: open(path, 'w') creates or truncates the file.
Opened == [st |-> "bad", len |-> 0, text |-> EmptyText]

\* fs.writeFile, second half: the text is written at offset 0 of whatever
\* the file holds by then; a longer text left there by another writer
\* keeps its tail, which JSON.parse rejects.
Written(data) ==
    LET text == DataToWrite(data)
        n    == JsonLen(text)
    IN  IF n >= file.len
        THEN [st |-> "json", len |-> n, text |-> text]
        ELSE [st |-> "bad", len |-> file.len, text |-> EmptyText]

\* MergedPoll that takes the ledger given and loses the stored question.
MergedPollWithoutQuestion(poll, updatedPollData) ==
    [f \in DOMAIN poll |->
        IF f = "votes" THEN updatedPollData.votes.entries
        ELSE IF f = "question" THEN << >>
        ELSE poll[f]]

\* MergedPoll that keeps the stored ledger (votes: poll.votes).
MergedPollStoredVotes(poll, updatedPollData) == poll

\* What {...obj} copies: the own enumerable properties, of which an
\* inherited function has none.
OwnProperties(obj) == IF "inherited" \in DOMAIN obj THEN << >> ELSE obj

\* A votes argument: a Map, or an object in mapping form.
VotesMap(entries)    == [map |-> TRUE, entries |-> entries]
VotesObject(entries) == [map |-> FALSE, entries |-> entries]

\* updatePoll, lines 144-149: {...poll, ...updatedPollData, votes:
\* updatedPollData.votes instanceof Map ? updatedPollData.votes : poll.votes};
\* a votes property that is undefined is left out.
MergedPoll(poll, updatedPollData) ==
    LET own   == OwnProperties(poll)
        votes == IF "votes" \in DOMAIN updatedPollData
                    /\ updatedPollData.votes.map
                 THEN {updatedPollData.votes.entries}
                 ELSE IF "votes" \in DOMAIN own THEN {own.votes} ELSE {}
    IN  [f \in ((DOMAIN own \cup DOMAIN updatedPollData) \ {"votes"})
                  \cup { "votes" : v \in votes } |->
            IF f = "votes" THEN CHOOSE v \in votes : TRUE
            ELSE IF f \in DOMAIN updatedPollData THEN updatedPollData[f]
            ELSE own[f]]

\* createPoll (store), lines 118-121: {...pollData, votes: new Map()}
NewPoll(pollData) ==
    [f \in DOMAIN pollData \cup {"votes"} |->
        IF f = "votes" THEN << >> ELSE pollData[f]]

Put(obj, key, val) == [k \in DOMAIN obj \cup {key} |->
                          IF k = key THEN val ELSE obj[k]]
Remove(obj, key)   == [k \in DOMAIN obj \ {key} |-> obj[k]]

\* ----------------------------------------------------------- validation
\* ValidatePollData asking for one option, not two.
ValidatePollDataOneOption(question, options, creatorUsername) ==
    IF Falsy(question) \/ Len(Trim(question)) = 0
    THEN "Poll question cannot be empty."
    ELSE IF Len(options) < 1
    THEN "Poll must have at least two options."
    ELSE IF \E i \in DOMAIN options :
                TypeOf(options[i]) # "string" \/ Len(Trim(options[i])) = 0
    THEN "All poll options must be non-empty strings."
    ELSE IF Cardinality({ Trim(options[i]) : i \in DOMAIN options }) # Len(options)
    THEN "Poll options must be unique."
    ELSE IF Falsy(creatorUsername) \/ Len(Trim(creatorUsername)) = 0
    THEN "Creator username must be provided."
    ELSE ""

\* ValidatePollData comparing the options as given, not trimmed.
ValidatePollDataUntrimmedSet(question, options, creatorUsername) ==
    IF Falsy(question) \/ Len(Trim(question)) = 0
    THEN "Poll question cannot be empty."
    ELSE IF Len(options) < 2
    THEN "Poll must have at least two options."
    ELSE IF \E i \in DOMAIN options :
                TypeOf(options[i]) # "string" \/ Len(Trim(options[i])) = 0
    THEN "All poll options must be non-empty strings."
    ELSE IF Cardinality({ options[i] : i \in DOMAIN options }) # Len(options)
    THEN "Poll options must be unique."
    ELSE IF Falsy(creatorUsername) \/ Len(Trim(creatorUsername)) = 0
    THEN "Creator username must be provided."
    ELSE ""

\* validatePollData with the test for unique options before the test for
\* non-empty strings
ValidatePollDataUniqueFirst(question, options, creatorUsername) ==
    IF Falsy(question) \/ Len(Trim(question)) = 0
    THEN "Poll question cannot be empty."
    ELSE IF Len(options) < 2
    THEN "Poll must have at least two options."
    ELSE IF Cardinality({ Trim(options[i]) : i \in DOMAIN options }) # Len(options)
    THEN "Poll options must be unique."
    ELSE IF \E i \in DOMAIN options :
                TypeOf(options[i]) # "string" \/ Len(Trim(options[i])) = 0
    THEN "All poll options must be non-empty strings."
    ELSE IF Falsy(creatorUsername) \/ Len(Trim(creatorUsername)) = 0
    THEN "Creator username must be provided."
    ELSE ""

\* validatePollData: "" when nothing is thrown, else the message.
ValidatePollData(question, options, creatorUsername) ==
    IF Falsy(question) \/ Len(Trim(question)) = 0
    THEN "Poll question cannot be empty."
    ELSE IF Len(options) < 2
    THEN "Poll must have at least two options."
    ELSE IF \E i \in DOMAIN options :
                TypeOf(options[i]) # "string" \/ Len(Trim(options[i])) = 0
    THEN "All poll options must be non-empty strings."
    ELSE IF Cardinality({ Trim(options[i]) : i \in DOMAIN options }) # Len(options)
    THEN "Poll options must be unique."
    ELSE IF Falsy(creatorUsername) \/ Len(Trim(creatorUsername)) = 0
    THEN "Creator username must be provided."
    ELSE ""

\* InvalidOptionIndex with the upper bound off by one (> for >=).
InvalidOptionIndexOffByOne(optionIndex, poll) ==
    \/ optionIndex.type # "number"
    \/ optionIndex.frac
    \/ optionIndex.val < 0
    \/ optionIndex.val > Len(poll.options)

\* InvalidOptionIndex without the Number.isInteger test.
InvalidOptionIndexAnyNumber(optionIndex, poll) ==
    \/ optionIndex.type # "number"
    \/ optionIndex.val < 0
    \/ optionIndex.val >= Len(poll.options)

\* vote, lines 124-129: the option index is rejected
InvalidOptionIndex(optionIndex, poll) ==
    \/ optionIndex.type # "number"
    \/ optionIndex.frac
    \/ optionIndex.val < 0
    \/ optionIndex.val >= Len(poll.options)

\* NotCreator without the trim of the requester.
NotCreatorUntrimmed(poll, requestingUsername) ==
    poll.creator # requestingUsername

\* deletePoll (service), line 89: the requester is not the creator
NotCreator(poll, requestingUsername) ==
    poll.creator # Trim(requestingUsername)

\* HasVoted reading the Map as a plain object (votes[username]), which
\* finds no entry.
HasVotedAsProperty(poll, trimmedUsername) ==
    trimmedUsername \in DOMAIN poll.votes /\ poll.votes[trimmedUsername] < 0

\* vote, line 135
HasVoted(poll, trimmedUsername) == trimmedUsername \in DOMAIN poll.votes

\* createUser, line 531, without the typeof and the trim tests
InvalidUsernameFalsyOnly(username) == Falsy(username)

\* createUser, line 531
InvalidUsername(username) ==
    \/ Falsy(username)
    \/ TypeOf(username) # "string"
    \/ Len(Trim(username)) = 0

\* -------------------------------------------------------------- requests
\* Slot p is free for a request of the callers `in`: those who send one
\* request at a time wait until no request is in flight, and the request
\* takes the first slot.
Idle(p, in) ==
    /\ pc[p] = "idle"
    /\ nops < MaxOps
    /\ in.overlap \/ (p = 1 /\ \A q \in Procs : pc[q] = "idle")

\* The handler of slot p, called as `call`, returns or throws r.
Finish(p, call, r) ==
    /\ pc' = [pc EXCEPT ![p] = "idle"]
    /\ loc' = [loc EXCEPT ![p] = NoLoc]
    /\ last' = [call |-> call, res |-> r]
    /\ ManagerUnchanged

\* The handler of slot p goes on to `label` with locals l.
Goto(p, label, l) ==
    /\ pc' = [pc EXCEPT ![p] = label]
    /\ loc' = [loc EXCEPT ![p] = l]
    /\ last' = NoLast
    /\ ManagerUnchanged

Reads == torn' = (torn \/ ReadsTorn)

\* The document the first read of a request returns, kept in its frame
\* when the request runs alone: what the request leaves is compared with it.
Found(in) == IF in.overlap THEN EmptyData ELSE ReadData

NoGhost == UNCHANGED <<registered, created, createdWith, deleted, okVotes>>

\* userService.createUser up to the answer of storage.findUserByUsername
Register(p, in, username) ==
    /\ Idle(p, in)
    /\ nops' = nops + 1
    /\ LET call == [op |-> "register", username |-> username]
       IN  IF InvalidUsername(username)
           THEN /\ Finish(p, call, UsernameEmpty)
                /\ torn' = torn
           ELSE /\ Reads
                /\ IF FindUserByUsername(Trim(username)) # {}
                   THEN Finish(p, call, AlreadyTaken(Trim(username)))
                   ELSE Goto(p, "reg_create",
                             [call |-> call, before |-> Found(in),
                              trimmed |-> Trim(username)])
    /\ UNCHANGED <<file, nextId>>
    /\ NoGhost

\* storage.createUser up to writeData
CreateUserRead(p) ==
    /\ pc[p] = "reg_create"
    /\ Reads
    /\ LET data     == ReadData
           username == loc[p].trimmed
           user     == [username |-> username]
       IN  IF Property(data.users, username) # {}
           THEN Finish(p, loc[p].call, AlreadyExists(username))
           ELSE Goto(p, "w_open",
                     loc[p] @@
                     [data |-> [data EXCEPT !.users = Put(@, username, user)],
                      ret  |-> user])
    /\ UNCHANGED <<file, nextId, nops>>
    /\ NoGhost

\* pollService.createPoll up to the answer of userService.findUser
CreatePoll(p, in, question, options, creatorUsername) ==
    /\ Idle(p, in)
    /\ nops' = nops + 1
    /\ LET call  == [op |-> "createPoll", question |-> question,
                     options |-> options, username |-> creatorUsername]
           error == ValidatePollData(question, options, creatorUsername)
       IN  IF error # ""
           THEN /\ Finish(p, call, Business(error))
                /\ UNCHANGED <<torn, nextId>>
           ELSE /\ Reads
                /\ IF FindUserByUsername(Trim(creatorUsername)) = {}
                   THEN /\ Finish(p, call,
                                  CreatorDoesNotExist(Trim(creatorUsername)))
                        /\ nextId' = nextId
                   ELSE /\ nextId <= MaxPolls
                        /\ nextId' = nextId + 1
                        /\ Goto(p, "cp_read",
                                [call |-> call, before |-> Found(in),
                                 pollData |->
                                   [id |-> nextId,
                                    question |-> Trim(question),
                                    options |-> [i \in DOMAIN options |->
                                                   Trim(options[i])],
                                    creator |-> Trim(creatorUsername)]])
    /\ UNCHANGED file
    /\ NoGhost

\* storage.createPoll up to writeData
CreatePollRead(p) ==
    /\ pc[p] = "cp_read"
    /\ Reads
    /\ LET data == ReadData
           poll == NewPoll(loc[p].pollData)
       IN  Goto(p, "w_open",
                loc[p] @@
                [data |-> [data EXCEPT !.polls = Put(@, poll.id, poll)],
                 ret  |-> poll])
    /\ UNCHANGED <<file, nextId, nops>>
    /\ NoGhost

\* pollService.vote up to the answer of storage.findPollById
Vote(p, in, pollId, optionIndex, username) ==
    /\ Idle(p, in)
    /\ nops' = nops + 1
    /\ LET call == [op |-> "vote", pollId |-> pollId,
                    optionIndex |-> optionIndex, username |-> username]
       IN  IF optionIndex = Undefined \/ Falsy(username)
           THEN /\ Finish(p, call, VoteArgsRequired)
                /\ torn' = torn
           ELSE /\ Reads
                /\ IF FindPollById(pollId) = {}
                   THEN Finish(p, call, PollNotFound(pollId))
                   ELSE Goto(p, "vote_user",
                             [call |-> call, before |-> Found(in),
                              trimmed |-> Trim(username),
                              poll |-> CHOOSE x \in FindPollById(pollId) : TRUE])
    /\ UNCHANGED <<file, nextId>>
    /\ NoGhost

\* pollService.vote from the answer of userService.findUser to the call of
\* storage.updatePoll
VoteCheck(p) ==
    /\ pc[p] = "vote_user"
    /\ Reads
    /\ LET poll == loc[p].poll
           u    == loc[p].trimmed
           i    == loc[p].call.optionIndex
       IN  IF FindUserByUsername(u) = {}
           THEN Finish(p, loc[p].call, UserNotFound(u))
           ELSE IF InvalidOptionIndex(i, poll)
           THEN Finish(p, loc[p].call, InvalidIndex(i, poll.id))
           ELSE IF HasVoted(poll, u)
           THEN Finish(p, loc[p].call, AlreadyVoted(u, poll.id))
           ELSE Goto(p, "upd_read",
                     [loc[p] EXCEPT !.poll.votes = Put(@, u, i.val)] @@
                     [fields |-> [votes |-> VotesMap(Put(poll.votes, u, i.val))]])
    /\ UNCHANGED <<file, nextId, nops>>
    /\ NoGhost

\* storage.updatePoll up to writeData
UpdatePollRead(p) ==
    /\ pc[p] = "upd_read"
    /\ Reads
    /\ LET data   == ReadData
           pollId == loc[p].call.pollId
       IN  IF Lookup(data.polls, pollId) = {}
           THEN Finish(p, loc[p].call, NotFoundForUpdate(pollId))
           ELSE LET poll    == CHOOSE x \in Lookup(data.polls, pollId) : TRUE
                    updated == MergedPoll(poll, loc[p].fields)
                IN  Goto(p, "w_open",
                         [f \in DOMAIN loc[p] \ {"poll", "fields"} |->
                            loc[p][f]] @@
                         [data |-> [data EXCEPT !.polls = Put(@, pollId, updated)],
                          ret  |-> updated])
    /\ UNCHANGED <<file, nextId, nops>>
    /\ NoGhost

\* pollService.deletePoll up to the call of storage.deletePoll
DeletePoll(p, in, pollId, requestingUsername) ==
    /\ Idle(p, in)
    /\ nops' = nops + 1
    /\ LET call == [op |-> "deletePoll", pollId |-> pollId,
                    username |-> requestingUsername]
       IN  IF Falsy(requestingUsername)
           THEN /\ Finish(p, call, DeletionArgsRequired)
                /\ torn' = torn
           ELSE /\ Reads
                /\ IF FindPollById(pollId) = {}
                   THEN Finish(p, call, PollNotFound(pollId))
                   ELSE LET poll == CHOOSE x \in FindPollById(pollId) : TRUE
                        IN  IF NotCreator(poll, requestingUsername)
                            THEN Finish(p, call,
                                        NotAuthorized(requestingUsername, pollId))
                            ELSE Goto(p, "del_read",
                                      [call |-> call, before |-> Found(in),
                                       poll |-> poll])
    /\ UNCHANGED <<file, nextId>>
    /\ NoGhost

\* storage.deletePoll up to writeData, or to `return false`
DeletePollRead(p) ==
    /\ pc[p] = "del_read"
    /\ Reads
    /\ LET data   == ReadData
           pollId == loc[p].call.pollId
       IN  IF Lookup(data.polls, pollId) # {}
           THEN Goto(p, "w_open",
                     loc[p] @@
                     [data |-> [data EXCEPT !.polls = Remove(@, pollId)],
                      ret  |-> TRUE])
           ELSE Finish(p, loc[p].call, Ok(FALSE))
    /\ UNCHANGED <<file, nextId, nops>>
    /\ NoGhost

\* pollService.getPollById
GetPollById(p, in, pollId) ==
    /\ Idle(p, in)
    /\ nops' = nops + 1
    /\ Reads
    /\ Finish(p, [op |-> "getPollById", pollId |-> pollId],
              Ok(FindPollById(pollId)))
    /\ UNCHANGED <<file, nextId>>
    /\ NoGhost

\* pollService.getAllPolls
GetAllPolls(p, in) ==
    /\ Idle(p, in)
    /\ nops' = nops + 1
    /\ Reads
    /\ Finish(p, [op |-> "getAllPolls"], Ok(GetAllPollsValues))
    /\ UNCHANGED <<file, nextId>>
    /\ NoGhost

\* userService.findUser
FindUser(p, in, username) ==
    /\ Idle(p, in)
    /\ nops' = nops + 1
    /\ Reads
    /\ Finish(p, [op |-> "findUser", username |-> username],
              Ok(FindUserByUsername(username)))
    /\ UNCHANGED <<file, nextId>>
    /\ NoGhost

\* pollService.getPollsByCreator up to the answer of userService.findUser
GetPollsByCreator(p, in, username) ==
    /\ Idle(p, in)
    /\ nops' = nops + 1
    /\ Reads
    /\ LET call == [op |-> "getPollsByCreator", username |-> username]
       IN  IF FindUserByUsername(Trim(username)) = {}
           THEN Finish(p, call, UserNotFound(Trim(username)))
           ELSE Goto(p, "by_creator",
                     [call |-> call, trimmed |-> Trim(username)])
    /\ UNCHANGED <<file, nextId>>
    /\ NoGhost

\* storage.findPollsByCreator
FindPollsByCreator(p) ==
    /\ pc[p] = "by_creator"
    /\ Reads
    /\ Finish(p, loc[p].call,
              Ok({ poll \in GetAllPollsValues :
                       poll.creator = loc[p].trimmed }))
    /\ UNCHANGED <<file, nextId, nops>>
    /\ NoGhost

\* pollService.getPollsVotedInByUser up to the answer of
\* userService.findUser
GetPollsVotedInByUser(p, in, username) ==
    /\ Idle(p, in)
    /\ nops' = nops + 1
    /\ Reads
    /\ LET call == [op |-> "getPollsVotedInByUser", username |-> username]
       IN  IF FindUserByUsername(Trim(username)) = {}
           THEN Finish(p, call, UserNotFound(Trim(username)))
           ELSE Goto(p, "voted_in",
                     [call |-> call, trimmed |-> Trim(username)])
    /\ UNCHANGED <<file, nextId>>
    /\ NoGhost

\* storage.findPollsVotedInByUser: the votes of a poll read from the
\* document are a Map, and Map.has knows own keys only
FindPollsVotedInByUser(p) ==
    /\ pc[p] = "voted_in"
    /\ Reads
    /\ Finish(p, loc[p].call,
              Ok({ poll \in GetAllPollsValues :
                       loc[p].trimmed \in DOMAIN poll.votes }))
    /\ UNCHANGED <<file, nextId, nops>>
    /\ NoGhost

\* writeData: fs.writeFile opens the file for writing
WriteOpen(p) ==
    /\ pc[p] = "w_open"
    /\ file' = Opened
    /\ pc' = [pc EXCEPT ![p] = "w_flush"]
    /\ last' = NoLast
    /\ ManagerUnchanged
    /\ UNCHANGED <<nextId, loc, nops, torn>>
    /\ NoGhost

\* The n-th successful vote of username on pollId
NthVote(pollId, username) ==
    Cardinality({ v \in okVotes : v[1] = pollId /\ v[2] = username }) + 1

\* writeData: fs.writeFile writes the text; the store operation and the
\* service operation return
WriteDone(p) ==
    /\ pc[p] = "w_flush"
    /\ file' = Written(loc[p].data)
    /\ Finish(p, loc[p].call, Ok(loc[p].ret))
    /\ LET op == loc[p].call.op
       IN  /\ registered' = IF op = "register"
                            THEN registered \cup {loc[p].trimmed} ELSE registered
           /\ created' = IF op = "createPoll"
                         THEN created \cup {loc[p].pollData.id} ELSE created
           /\ createdWith' = IF op = "createPoll"
                             THEN Put(createdWith, loc[p].pollData.id,
                                      loc[p].pollData)
                             ELSE createdWith
           /\ deleted' = IF op = "deletePoll"
                         THEN deleted \cup {loc[p].call.pollId} ELSE deleted
           /\ okVotes' = IF op = "vote"
                         THEN okVotes \cup
                              { <<loc[p].call.pollId, loc[p].trimmed,
                                  loc[p].call.optionIndex.val,
                                  NthVote(loc[p].call.pollId, loc[p].trimmed)>> }
                         ELSE okVotes
    /\ UNCHANGED <<nextId, nops, torn>>

Step(p, in) ==
    \/ \E u \in in.usernames \cup in.nonStrings : Register(p, in, u)
    \/ CreateUserRead(p)
    \/ \E q \in in.questions, o \in in.optionLists, u \in in.usernames :
          CreatePoll(p, in, q, o, u)
    \/ CreatePollRead(p)
    \/ \E id \in in.pollIds, i \in in.indexes, u \in in.usernames :
          Vote(p, in, id, i, u)
    \/ VoteCheck(p)
    \/ UpdatePollRead(p)
    \/ \E id \in in.pollIds, u \in in.usernames : DeletePoll(p, in, id, u)
    \/ DeletePollRead(p)
    \/ \E id \in in.pollIds : GetPollById(p, in, id)
    \/ GetAllPolls(p, in)
    \/ \E u \in in.usernames : FindUser(p, in, u)
    \/ \E u \in in.queryNames : GetPollsByCreator(p, in, u)
    \/ FindPollsByCreator(p)
    \/ \E u \in in.queryNames : GetPollsVotedInByUser(p, in, u)
    \/ FindPollsVotedInByUser(p)
    \/ WriteOpen(p)
    \/ WriteDone(p)

\* Requests overlap.
Next == \E p \in Procs : Step(p, ConcurrentInputs)

Spec == Init /\ [][Next]_vars

\* One request at a time: a request starts when no other is in flight.
NextSeq == \E p \in Procs : Step(p, SequentialInputs)

SpecSeq == Init /\ [][NextSeq]_vars

\* ------------------------------------------- the store, called directly
\* The arguments a caller of the storage module passes: usernames, poll
\* data with and without a votes property, ids (with the ids "constructor"
\* and, for a poll to create, "__proto__"), and the fields of an update.
StoreIds == {ConstructorId} \cup 1..(MaxPolls + 1)
StoreInputs ==
    [usernames |-> { <<"a">>, <<"b">>, ConstructorName },
     pollIds   |-> StoreIds,
     pollData  |->
        { [id |-> id, question |-> q, options |-> TwoOptions,
           creator |-> <<"a">>] : id \in StoreIds \cup {ProtoId},
                                  q \in { <<"q">>, <<"r">> } }
        \cup { [id |-> 1, question |-> <<"q">>, options |-> ThreeOptions,
                creator |-> <<"b">>, votes |-> VotesObject(<<"a">> :> 0)] },
     fields    |->
        { [votes |-> VotesMap(<<"a">> :> 0)],
          [votes |-> VotesMap(<< >>)],
          [votes |-> VotesObject(<<"a">> :> 1)],
          [question |-> <<"r">>],
          << >> },
     overlap   |-> FALSE]

\* storage.createUser(username) is called
StoreCreateUser(p, in, username) ==
    /\ Idle(p, in)
    /\ nops' = nops + 1
    /\ Goto(p, "reg_create",
            [call |-> [op |-> "storage.createUser", username |-> username],
             before |-> Found(in), trimmed |-> username])
    /\ UNCHANGED <<file, nextId, torn>>
    /\ NoGhost

\* storage.createPoll(pollData) is called
StoreCreatePoll(p, in, pollData) ==
    /\ Idle(p, in)
    /\ nops' = nops + 1
    /\ Goto(p, "cp_read",
            [call |-> [op |-> "storage.createPoll", pollData |-> pollData],
             before |-> Found(in), pollData |-> pollData])
    /\ UNCHANGED <<file, nextId, torn>>
    /\ NoGhost

\* storage.updatePoll(pollId, updatedPollData) is called
StoreUpdatePoll(p, in, pollId, updatedPollData) ==
    /\ Idle(p, in)
    /\ nops' = nops + 1
    /\ Goto(p, "upd_read",
            [call |-> [op |-> "storage.updatePoll", pollId |-> pollId,
                       fields |-> updatedPollData],
             before |-> Found(in), fields |-> updatedPollData])
    /\ UNCHANGED <<file, nextId, torn>>
    /\ NoGhost

\* storage.deletePoll(pollId) is called
StoreDeletePoll(p, in, pollId) ==
    /\ Idle(p, in)
    /\ nops' = nops + 1
    /\ Goto(p, "del_read",
            [call |-> [op |-> "storage.deletePoll", pollId |-> pollId],
             before |-> Found(in)])
    /\ UNCHANGED <<file, nextId, torn>>
    /\ NoGhost

\* One store call at a time.
NextStore ==
    \E p \in Procs :
       \/ \E u \in StoreInputs.usernames : StoreCreateUser(p, StoreInputs, u)
       \/ CreateUserRead(p)
       \/ \E d \in StoreInputs.pollData : StoreCreatePoll(p, StoreInputs, d)
       \/ CreatePollRead(p)
       \/ \E id \in StoreInputs.pollIds, f \in StoreInputs.fields :
             StoreUpdatePoll(p, StoreInputs, id, f)
       \/ UpdatePollRead(p)
       \/ \E id \in StoreInputs.pollIds : StoreDeletePoll(p, StoreInputs, id)
       \/ DeletePollRead(p)
       \/ WriteOpen(p)
       \/ WriteDone(p)

SpecStore == Init /\ [][NextStore]_vars

\* ------------------------------------------------------ Poll (src/poll.js)
\* The in-memory Poll aggregate and the PollManager that keeps Polls in a
\* Map.  Their methods are synchronous: one call is one step.

UpperCase == <<"A", "B", "C", "D", "E", "F", "G", "H", "I", "J", "K", "L", "M",
               "N", "O", "P", "Q", "R", "S", "T", "U", "V", "W", "X", "Y", "Z">>
LowerCase == <<"a", "b", "c", "d", "e", "f", "g", "h", "i", "j", "k", "l", "m",
               "n", "o", "p", "q", "r", "s", "t", "u", "v", "w", "x", "y", "z">>

\* String.prototype.toLowerCase
ToLowerCase(s) ==
    [i \in 1..Len(s) |->
        IF \E k \in 1..26 : UpperCase[k] = s[i]
        THEN LowerCase[CHOOSE k \in 1..26 : UpperCase[k] = s[i]]
        ELSE s[i]]

\* What createPoll and vote of the PollManager are called with.  Option
\* lists: one with an option that is blank, one of numbers, one with a
\* single number, one with an option named like the prototype accessor.
OneBlankOption == << <<"x">>, <<" ">> >>
NumberOptions  == << JsNumber, JsNumber >>
OneNumber      == << JsNumber >>
ProtoOptions   == << ProtoName, <<"x">> >>

ManagerInputs ==
    [polls   |-> { << <<"q">>, TwoOptions >>,
                   << <<"Q", " ">>, TwoOptions >>,
                   << <<"q">>, PaddedOptions >>,
                   << <<"q">>, ProtoOptions >>,
                   << <<"q">>, DuplicateOptions >>,
                   << <<"q">>, BlankOptions >>,
                   << <<"q">>, OneBlankOption >>,
                   << <<"q">>, NumberOptions >>,
                   << <<"q">>, OneNumber >>,
                   << <<"q">>, << <<"x">> >> >>,
                   << <<" ">>, << <<"x">> >> >> },
     options |-> { <<"x">>, <<"x", " ">>, <<"z">>, ProtoName },
     ids     |-> 1..2]

\* `${id}` of a PollManager id
IdText(id) == <<"1", "2", "3", "4", "5", "6", "7", "8", "9">>[id]

QuestionEmpty  == Err("Error", "Poll question cannot be empty")
TooFewOptions  == Err("Error", "Poll must have at least two options")
NotStrings     == Err("Error", "Poll options must be strings")
NotUnique      == Err("Error", "Poll options must be unique")
OptionEmpty    == Err("Error", "Poll options cannot be empty")
InvalidOption(option) ==
    Err("Error", "Invalid poll option: " \o Str(option))
DuplicateQuestion ==
    Err("Error", "A poll with this question already exists")
PollNotFoundWithId(id) ==
    Err("Error", "Poll not found with id: " \o IdText(id))

\* #validateInputs with the test for empty options before the test for
\* unique ones
ValidateInputsEmptyFirst(question, options) ==
    LET trimmed == [i \in 1..Len(options) |-> Trim(options[i])]
    IN  IF Falsy(question) \/ Falsy(Trim(question))
        THEN {QuestionEmpty}
        ELSE IF Len(options) < 2
        THEN {TooFewOptions}
        ELSE IF \E i \in 1..Len(options) : TypeOf(options[i]) # "string"
        THEN {NotStrings}
        ELSE IF \E i \in 1..Len(trimmed) : Falsy(trimmed[i])
        THEN {OptionEmpty}
        ELSE IF Cardinality({ trimmed[i] : i \in 1..Len(trimmed) })
                    # Len(trimmed)
        THEN {NotUnique}
        ELSE {}

\* Poll.#validateInputs: the error it throws, {} when it returns
ValidateInputs(question, options) ==
    LET trimmed == [i \in 1..Len(options) |-> Trim(options[i])]
    IN  IF Falsy(question) \/ Falsy(Trim(question))
        THEN {QuestionEmpty}
        ELSE IF Len(options) < 2
        THEN {TooFewOptions}
        ELSE IF \E i \in 1..Len(options) : TypeOf(options[i]) # "string"
        THEN {NotStrings}
        ELSE IF Cardinality({ trimmed[i] : i \in 1..Len(trimmed) })
                    # Len(trimmed)
        THEN {NotUnique}
        ELSE IF \E i \in 1..Len(trimmed) : Falsy(trimmed[i])
        THEN {OptionEmpty}
        ELSE {}

\* obj[key] = value on a plain object whose values are numbers: a new own
\* property, except for "__proto__", the accessor of Object.prototype,
\* whose setter ignores a value that is neither an object nor null.
SetProperty(obj, key, value) ==
    IF key = ProtoName THEN obj
    ELSE [k \in DOMAIN obj \cup {key} |-> IF k = key THEN value ELSE obj[k]]

\* this.#options.forEach(option => this.#votes[option] = 0)
RECURSIVE ZeroVotes(_, _)
ZeroVotes(votes, options) ==
    IF options = <<>> THEN votes
    ELSE ZeroVotes(SetProperty(votes, Head(options), 0), Tail(options))

\* The Poll the constructor makes once #validateInputs returned
PollConstructor(id, question, options) ==
    LET trimmed == [i \in 1..Len(options) |-> Trim(options[i])]
    IN  [id       |-> id,
         question |-> Trim(question),
         options  |-> trimmed,
         votes    |-> ZeroVotes(<< >>, trimmed)]

\* poll.name read from outside the class: Poll has one accessor, id; every
\* other name is undefined ({}).
PollProperty(poll, name) == IF name = "id" THEN {poll.id} ELSE {}

\* this.#votes[option] read: a number, or the object "__proto__" gives
VotesProperty(votes, option) ==
    IF option \in DOMAIN votes THEN [number |-> votes[option]]
    ELSE [object |-> option]

\* Poll.vote: the error it throws ({} when it returns) and the Poll after
\* it.  For "__proto__" the increment computes NaN and stores nothing.
PollVote(poll, option) ==
    IF ~ \E i \in 1..Len(poll.options) : poll.options[i] = option
    THEN [thrown |-> {InvalidOption(option)}, poll |-> poll]
    ELSE [thrown |-> {},
          poll   |-> IF option \in DOMAIN poll.votes
                     THEN [poll EXCEPT !.votes[option] = @ + 1]
                     ELSE poll]

\* Poll.getResults
PollGetResults(poll) ==
    [question   |-> poll.question,
     totalVotes |-> FnSum(poll.votes),
     results    |-> [i \in 1..Len(poll.options) |->
                        [option |-> poll.options[i],
                         votes  |-> VotesProperty(poll.votes,
                                                  poll.options[i])]]]

\* ------------------------------------- PollManager (services/pollService.js)
\* createPoll, lines 222-224
HasDuplicateQuestion(polls, question) ==
    \E id \in DOMAIN polls :
        PollProperty(polls[id], "question") = {ToLowerCase(Trim(question))}

\* A PollManager call returns or throws r.
Answer(call, r) ==
    /\ calls < MaxCalls
    /\ calls' = calls + 1
    /\ answered' = [call |-> call, res |-> r]
    /\ ServicesUnchanged

\* #generateId that returns the counter and leaves it as it is.
GenerateIdNoIncrement(counter) == [id |-> counter, counter |-> counter]

\* #generateId: return this.#counter++
GenerateId(counter) == [id |-> counter, counter |-> counter + 1]

\* PollManager.createPoll
ManagerCreatePoll(question, options) ==
    LET call == [op |-> "createPoll", question |-> question,
                 options |-> options]
        generated == GenerateId(pollManager.counter)
        id   == generated.id
    IN  IF HasDuplicateQuestion(pollManager.polls, question)
        THEN /\ Answer(call, DuplicateQuestion)
             /\ UNCHANGED <<pollManager, made, cast>>
        ELSE IF ValidateInputs(question, options) # {}
        THEN /\ Answer(call, CHOOSE e \in ValidateInputs(question, options) :
                                 TRUE)
             /\ pollManager' = [pollManager EXCEPT !.counter = generated.counter]
             /\ UNCHANGED <<made, cast>>
        ELSE /\ Answer(call, Ok(id))
             /\ pollManager' =
                    [polls   |-> [k \in DOMAIN pollManager.polls \cup {id} |->
                                    IF k = id
                                    THEN PollConstructor(id, question, options)
                                    ELSE pollManager.polls[k]],
                     counter |-> generated.counter]
             /\ made' = [k \in DOMAIN made \cup {id} |->
                            IF k = id
                            THEN [question |-> question, options |-> options]
                            ELSE made[k]]
             /\ cast' = cast

\* PollManager.getPoll: the Poll, {} when it throws
GetPoll(id) ==
    IF id \in DOMAIN pollManager.polls THEN {pollManager.polls[id]} ELSE {}

\* PollManager.vote
ManagerVote(pollId, option) ==
    LET call == [op |-> "vote", pollId |-> pollId, option |-> option]
    IN  IF GetPoll(pollId) = {}
        THEN /\ Answer(call, PollNotFoundWithId(pollId))
             /\ UNCHANGED <<pollManager, made, cast>>
        ELSE LET voted == PollVote(pollManager.polls[pollId], option)
             IN  IF voted.thrown # {}
                 THEN /\ Answer(call, CHOOSE e \in voted.thrown : TRUE)
                      /\ UNCHANGED <<pollManager, made, cast>>
                 ELSE /\ Answer(call, Ok(TRUE))
                      /\ pollManager' =
                            [pollManager EXCEPT !.polls[pollId] = voted.poll]
                      /\ cast' =
                            [k \in DOMAIN cast \cup {<<pollId, option>>} |->
                                IF k = <<pollId, option>>
                                THEN IF k \in DOMAIN cast
                                     THEN cast[k] + 1 ELSE 1
                                ELSE cast[k]]
                      /\ made' = made

\* PollManager.getResults
ManagerGetResults(pollId) ==
    /\ IF GetPoll(pollId) = {}
       THEN Answer([op |-> "getResults", pollId |-> pollId],
                   PollNotFoundWithId(pollId))
       ELSE Answer([op |-> "getResults", pollId |-> pollId],
                   Ok(PollGetResults(pollManager.polls[pollId])))
    /\ UNCHANGED <<pollManager, made, cast>>

\* PollManager.getAllPolls: the ids of the Polls, in insertion order
RECURSIVE Ascending(_)
Ascending(ids) ==
    IF ids = {} THEN <<>>
    ELSE LET least == CHOOSE i \in ids : \A j \in ids : i <= j
         IN  <<least>> \o Ascending(ids \ {least})

ManagerGetAllPolls ==
    /\ Answer([op |-> "getAllPolls"],
              Ok([i \in 1..Cardinality(DOMAIN pollManager.polls) |->
                     PollProperty(
                         pollManager.polls[
                             Ascending(DOMAIN pollManager.polls)[i]],
                         "id")]))
    /\ UNCHANGED <<pollManager, made, cast>>

\* The PollManager of a fresh process, and no service request.
InitManager == Init /\ file = NoFile

NextManager ==
    \/ \E in \in ManagerInputs.polls : ManagerCreatePoll(in[1], in[2])
    \/ \E id \in ManagerInputs.ids, o \in ManagerInputs.options :
          ManagerVote(id, o)
    \/ \E id \in ManagerInputs.ids : ManagerGetResults(id)
    \/ ManagerGetAllPolls

SpecManager == InitManager /\ [][NextManager]_vars

\* ================================================================ claims
\* What a read of the store returns now.
Doc == ReadData

\* No request is in flight.
Quiescent == \A p \in Procs : pc[p] = "idle"

\* No writeData is between its open and its write.
NoWriteInProgress == \A p \in Procs : pc[p] # "w_flush"

VotedBefore(pollId, username) ==
    \E v \in okVotes : v[1] = pollId /\ v[2] = username


\* C1: mutating store operations that overlap take effect one after the
\* other: once all requests have completed, the document holds every
\* registered user, every created poll that was not deleted, no deleted
\* poll, and every vote that was returned on a poll that still exists.
C1_NoLostUpdate ==
    Quiescent =>
        /\ \A u \in registered : u \in DOMAIN Doc.users
        /\ \A id \in created \ deleted : id \in DOMAIN Doc.polls
        /\ \A id \in deleted : id \notin DOMAIN Doc.polls
        /\ \A v \in okVotes :
              v[1] \in DOMAIN Doc.polls =>
                  /\ v[2] \in DOMAIN Doc.polls[v[1]].votes
                  /\ Doc.polls[v[1]].votes[v[2]] = v[3]

\* C2: votes are permanent: after vote(pollId, i, u) has returned a poll,
\* in every state in which the poll exists its ledger maps u to i.
C2_VotesPermanent ==
    \A v \in okVotes :
        v[1] \in DOMAIN Doc.polls =>
            /\ v[2] \in DOMAIN Doc.polls[v[1]].votes
            /\ Doc.polls[v[1]].votes[v[2]] = v[3]

\* The step in which slot p, past findPollById and findUser in vote, either
\* throws or goes on to updatePoll.
VoteDecides(p) == pc[p] = "vote_user" /\ pc'[p] # "vote_user"

\* The vote of slot p is rejected with r: nothing is written and the ledger
\* keeps the one entry of the first vote.
SecondVoteRejected(p, r) ==
    /\ pc'[p] = "idle"
    /\ last'.res = r
    /\ file' = file
    /\ \A v \in okVotes :
          (v[1] = loc[p].call.pollId /\ v[2] = loc[p].trimmed) =>
              /\ v[4] = 1
              /\ Lookup(ReadData.polls, v[1]) # {}
              /\ ReadData.polls[v[1]].votes[v[2]] = v[3]

C4_OneVotePerUser == \A v \in okVotes : v[4] = 1

\* C5: no read of the store takes a file that a writeData has opened and
\* not yet written for the empty document.
C5_NoTornRead == ~torn

\* The call that starts in this step, when one does.
Starts == nops' = nops + 1
StartedCall ==
    IF pc' = pc THEN last'.call
    ELSE loc'[CHOOSE p \in Procs : pc'[p] # pc[p]].call

\* A deletePoll of the stored poll starts.
DeleteStarts(poll) ==
    /\ Starts
    /\ StartedCall.op = "deletePoll"
    /\ StartedCall.pollId = poll.id

DeleteRefused ==
    /\ pc' = pc
    /\ last'.res = NotAuthorized(last'.call.username, last'.call.pollId)
    /\ file' = file

\* C6, as claimed: a deletePoll by a (non-empty) requesting username that
\* differs in any character from the poll's creator fails with
\* not-authorized and leaves the document as it is.
C6_ExactMatchOnly ==
    [][\A id \in DOMAIN Doc.polls :
          (/\ DeleteStarts(Doc.polls[id])
           /\ ~Falsy(StartedCall.username)
           /\ StartedCall.username # Doc.polls[id].creator)
              => DeleteRefused]_vars

\* C6, amended: the requester is compared after trimming.  A deletePoll by
\* a non-empty requesting username whose trimmed form differs from the
\* poll's creator fails with not-authorized and leaves the document as it
\* is; one whose trimmed form equals the creator goes on to the store's
\* deletePoll; and the store's deletePoll runs for no other requester.
C6_TrimmedMatchOnly ==
    /\ [][\A id \in DOMAIN Doc.polls :
            (DeleteStarts(Doc.polls[id]) /\ ~Falsy(StartedCall.username)) =>
                IF Trim(StartedCall.username) # Doc.polls[id].creator
                THEN DeleteRefused
                ELSE \E p \in Procs : pc[p] = "idle" /\ pc'[p] = "del_read"]_vars
    /\ [](\A p \in Procs :
            (loc[p].call.op = "deletePoll" /\ pc[p] # "idle") =>
                Trim(loc[p].call.username) = loc[p].poll.creator)

\* A deletePoll by a registered user who is not the creator has just been
\* refused, and the poll is still there.
C6_Witness ==
    /\ last.call.op = "deletePoll"
    /\ last.res = NotAuthorized(last.call.username, last.call.pollId)
    /\ Trim(last.call.username) \in DOMAIN Doc.users
    /\ FindPollById(last.call.pollId) # {}

\* C7: a poll for which deletePoll has returned true is absent for every
\* getPollById that starts afterwards.
C7_DeletedStaysDeleted == \A id \in deleted : FindPollById(id) = {}

\* C8: in the persisted document every key of every poll's vote ledger is
\* the username of a user of the document.
C8_VotersAreUsers ==
    file.st = "json" =>
        \A id \in DOMAIN file.text.polls :
            \A e \in file.text.polls[id].votes : e[1] \in DOMAIN file.text.users

\* C9: in the persisted document every value of every poll's vote ledger
\* is an integer i with 0 <= i < the number of options of that poll.
C9_VotesAreValidIndexes ==
    file.st = "json" =>
        \A id \in DOMAIN file.text.polls :
            \A e \in file.text.polls[id].votes :
                e[2] \in 0..(Len(file.text.polls[id].options) - 1)

\* A stored ledger holds the last index of a three-option poll.
C9_Witness ==
    /\ file.st = "json"
    /\ \E id \in DOMAIN file.text.polls :
          /\ Len(file.text.polls[id].options) = 3
          /\ \E e \in file.text.polls[id].votes : e[2] = 2

\* C10: users are never deleted: a username for which register has returned
\* resolves in every later state (stated for the states in which no write
\* is in progress, so that what is shown lost stays lost).
C10_UsersNeverDeleted ==
    NoWriteInProgress =>
        \A u \in registered : FindUserByUsername(u) # {}

\* C11: for each username at most one registration ever returns a user,
\* also when registrations of the same name overlap: no createUser returns
\* a user for a name for which a createUser has returned one before.
C11_OneRegistrationPerName ==
    [][\A p \in Procs :
          (/\ pc[p] = "w_flush"
           /\ pc'[p] = "idle"
           /\ loc[p].call.op = "register")
              => loc[p].trimmed \notin registered]_vars

\* A register call starts in this step.
RegisterStarts == Starts /\ StartedCall.op = "register"

\* The register call that starts in this step ends in it with the
\* already-taken error, and nothing is written.
RegisterRefused ==
    /\ pc' = pc
    /\ last'.res = AlreadyTaken(Trim(StartedCall.username))
    /\ file' = file

\* C12: with one request at a time, register(v) fails with already-taken
\* exactly when trim(v) is the username of a registered user, and then the
\* users collection is unchanged; a register(u) that returns a user returns
\* and stores the username trim(u).
C12_RegisterTrims ==
    [][/\ RegisterStarts =>
             (RegisterRefused <=> Trim(StartedCall.username) \in DOMAIN Doc.users)
       /\ \A p \in Procs :
             (/\ pc[p] = "w_flush"
              /\ pc'[p] = "idle"
              /\ loc[p].call.op = "register") =>
                 LET u == Trim(loc[p].call.username)
                 IN  /\ last'.res = Ok([username |-> u])
                     /\ file'.st = "json"
                     /\ DOMAIN file'.text.users = registered \cup {u}
                     /\ file'.text.users[u] = [username |-> u]]_vars

\* An option index that is not an integer of [0, options.length).
NotAnOption(optionIndex, poll) ==
    ~(/\ optionIndex.type = "number"
      /\ ~optionIndex.frac
      /\ optionIndex.val \in 0..(Len(poll.options) - 1))

\* A vote on a stored poll by a stored user starts with an index that is
\* not one of the poll's options.
BadIndexVoteStarts ==
    /\ Starts
    /\ StartedCall.op = "vote"
    /\ StartedCall.pollId \in DOMAIN Doc.polls
    /\ Trim(StartedCall.username) \in DOMAIN Doc.users
    /\ NotAnOption(StartedCall.optionIndex, Doc.polls[StartedCall.pollId])

\* The vote of slot p, on a stored poll by a stored user with an index that
\* is not one of the poll's options, passes the check of the index.
BadIndexVoteDecides(p) ==
    /\ VoteDecides(p)
    /\ loc[p].trimmed \in DOMAIN Doc.users
    /\ NotAnOption(loc[p].call.optionIndex, loc[p].poll)

\* The vote `call` has just failed with r and has written nothing.
VoteFailed(call, r) ==
    /\ last'.call = call
    /\ last'.res = r
    /\ file' = file

\* C13, as claimed: with one request at a time, a vote on an existing poll
\* by an existing user whose option index is not an integer of
\* [0, options.length) fails with the invalid-option-index error and leaves
\* the document as it is.
C13_BadIndexIsInvalidIndex ==
    [][/\ BadIndexVoteStarts =>
             \/ \E p \in Procs : pc[p] = "idle" /\ pc'[p] = "vote_user"
             \/ VoteFailed(StartedCall,
                           InvalidIndex(StartedCall.optionIndex,
                                        StartedCall.pollId))
       /\ \A p \in Procs : BadIndexVoteDecides(p) =>
             VoteFailed(loc[p].call,
                        InvalidIndex(loc[p].call.optionIndex,
                                     loc[p].call.pollId))]_vars

\* C13, amended: with one request at a time, a vote on an existing poll by
\* an existing user whose option index is given (not undefined) and is not
\* an integer of [0, options.length) fails with the invalid-option-index
\* error; one whose option index is undefined fails with the
\* required-arguments error; in both cases the document is left as it is.
C13_BadIndexFails ==
    [][/\ BadIndexVoteStarts =>
             IF StartedCall.optionIndex = Undefined
             THEN VoteFailed(StartedCall, VoteArgsRequired)
             ELSE \E p \in Procs : pc[p] = "idle" /\ pc'[p] = "vote_user"
       /\ \A p \in Procs : BadIndexVoteDecides(p) =>
             VoteFailed(loc[p].call,
                        InvalidIndex(loc[p].call.optionIndex,
                                     loc[p].call.pollId))]_vars

\* A vote with a fractional index on a stored poll by a stored user has
\* just failed with the invalid-option-index error.
C13_Witness ==
    /\ last.call.op = "vote"
    /\ last.call.optionIndex = Frac(0)
    /\ last.call.pollId \in DOMAIN Doc.polls
    /\ Trim(last.call.username) \in DOMAIN Doc.users
    /\ last.res = InvalidIndex(last.call.optionIndex, last.call.pollId)

\* The vote of slot p returns a poll in this step.
VoteReturns(p) ==
    /\ pc[p] = "w_flush"
    /\ pc'[p] = "idle"
    /\ loc[p].call.op = "vote"

\* The vote of slot p has added exactly the entry voter -> its index to the
\* document it found and returns the poll as it is now stored.
VoteAdds(p, voter) ==
    LET id == loc[p].call.pollId
        b  == loc[p].before
    IN  /\ voter \notin DOMAIN b.polls[id].votes
        /\ file'.st = "json"
        /\ ParsedData(file'.text) =
               [b EXCEPT !.polls[id].votes =
                             Put(@, voter, loc[p].call.optionIndex.val)]
        /\ last'.res = Ok(ParsedData(file'.text).polls[id])

\* A getPollById that follows a vote that returned a poll returns a poll
\* with the ledger the vote returned.
GetAfterVoteSameLedger ==
    (/\ last.call.op = "vote"
     /\ last.res.status = "ok"
     /\ Starts
     /\ StartedCall.op = "getPollById"
     /\ StartedCall.pollId = last.call.pollId) =>
        /\ last'.res.status = "ok"
        /\ \E poll \in last'.res.value : poll.votes = last.res.value.votes

\* C14, as claimed: with one request at a time, a vote(pollId, i, u) that
\* returns a poll has added exactly the entry u -> i to the ledger of that
\* poll and changed nothing else, and a getPollById that follows returns
\* the same ledger.
C14_VoteAddsArgument ==
    [][/\ \A p \in Procs : VoteReturns(p) => VoteAdds(p, loc[p].call.username)
       /\ GetAfterVoteSameLedger]_vars

\* C14, amended: with one request at a time, a vote(pollId, i, u) that
\* returns a poll has added exactly the entry trim(u) -> i to the ledger of
\* that poll and returns the poll as stored: every earlier entry, the
\* poll's id, question, options and creator, every other poll and every
\* user are unchanged, and a getPollById that follows returns the same
\* ledger.
C14_VoteAddsTrimmed ==
    [][/\ \A p \in Procs :
             VoteReturns(p) => VoteAdds(p, Trim(loc[p].call.username))
       /\ GetAfterVoteSameLedger]_vars

\* A vote has just returned a poll whose ledger holds an earlier entry
\* besides the new one.
C14_Witness ==
    /\ last.call.op = "vote"
    /\ last.res.status = "ok"
    /\ Cardinality(DOMAIN last.res.value.votes) = 2
    /\ Trim(last.call.username) \in DOMAIN last.res.value.votes

\* Two entries of the options are equal after trimming.
HasDuplicate(options) ==
    \E i, j \in DOMAIN options : i # j /\ Trim(options[i]) = Trim(options[j])

Blank(str) == Trim(str) = <<>>

\* A createPoll starts with a question that is not blank and options two
\* of which are equal after trimming.
DuplicateCreateStarts ==
    /\ Starts
    /\ StartedCall.op = "createPoll"
    /\ HasDuplicate(StartedCall.options)

\* The createPoll that starts in this step ends in it with the validation
\* error msg: nothing is written and no id is generated.
CreateRejected(msg) ==
    /\ pc' = pc
    /\ last'.res = Business(msg)
    /\ file' = file
    /\ nextId' = nextId

CreateByUserStarts ==
    /\ Starts
    /\ StartedCall.op = "createPoll"
    /\ Trim(StartedCall.username) \in DOMAIN Doc.users

\* The createPoll that starts in this step passes validation and the
\* creator check.
CreateAccepted == \E p \in Procs : pc[p] = "idle" /\ pc'[p] = "cp_read"

\* A createPoll that was accepted does not fail, and when it returns it
\* returns the poll it has added to the document it found: the question,
\* the options (in order) and the creator trimmed, and an empty ledger.
CreateReturnsTrimmed ==
    \A p \in Procs :
        (loc[p].call.op = "createPoll" /\ pc[p] # "idle" /\ pc'[p] = "idle") =>
            LET call == loc[p].call
                id   == loc[p].pollData.id
                poll == [id       |-> id,
                         question |-> Trim(call.question),
                         options  |-> [i \in 1..Len(call.options) |->
                                         Trim(call.options[i])],
                         creator  |-> Trim(call.username),
                         votes    |-> << >>]
            IN  /\ last'.res = Ok(poll)
                /\ id \notin DOMAIN loc[p].before.polls
                /\ file'.st = "json"
                /\ ParsedData(file'.text) =
                       [loc[p].before EXCEPT !.polls = Put(@, id, poll)]

\* Every stored poll has at least 2 options, none blank, pairwise distinct.
StoredOptionsValid ==
    file.st = "json" =>
        \A id \in DOMAIN file.text.polls :
            LET options == file.text.polls[id].options
            IN  /\ Len(options) >= 2
                /\ \A i \in DOMAIN options : options[i] # <<>>
                /\ \A i, j \in DOMAIN options :
                      i # j => options[i] # options[j]

\* C16, as claimed: with one request at a time, a createPoll by an
\* existing creator with a non-empty question and at least 2 non-empty
\* strings as options that are pairwise distinct after trimming succeeds and returns
\* and stores the trimmed poll with an empty ledger; every stored poll has
\* at least 2 pairwise distinct non-empty options.
C16_NonEmptyInputSucceeds ==
    /\ [][/\ (/\ CreateByUserStarts
               /\ StartedCall.question # <<>>
               /\ Len(StartedCall.options) >= 2
               /\ \A k \in DOMAIN StartedCall.options :
                     (TypeOf(StartedCall.options[k]) = "string")
               /\ \A i \in DOMAIN StartedCall.options :
                     StartedCall.options[i] # <<>>
               /\ ~HasDuplicate(StartedCall.options)) => CreateAccepted
          /\ CreateReturnsTrimmed]_vars
    /\ []StoredOptionsValid

\* C16, amended: the same for a question and options that are non-empty
\* after trimming (a question or an option of whitespace only is rejected).
C16_NonBlankInputSucceeds ==
    /\ [][/\ (/\ CreateByUserStarts
               /\ ~Blank(StartedCall.question)
               /\ Len(StartedCall.options) >= 2
               /\ \A k \in DOMAIN StartedCall.options :
                     (TypeOf(StartedCall.options[k]) = "string")
               /\ \A i \in DOMAIN StartedCall.options :
                     ~Blank(StartedCall.options[i])
               /\ ~HasDuplicate(StartedCall.options)) => CreateAccepted
          /\ CreateReturnsTrimmed]_vars
    /\ []StoredOptionsValid

\* A createPoll with the options "x " and " y" has just returned a poll
\* with the options "x" and "y".
C16_Witness ==
    /\ last.call.op = "createPoll"
    /\ last.call.options = PaddedOptions
    /\ last.res.status = "ok"
    /\ last.res.value.options = TwoOptions
    /\ FindPollById(last.res.value.id) = {last.res.value}

\* A createPoll starts whose question, options and creator pass
\* validation and whose creator (trimmed) is not a stored user.
CreateByStrangerStarts ==
    /\ Starts
    /\ StartedCall.op = "createPoll"
    /\ ~Blank(StartedCall.question)
    /\ Len(StartedCall.options) >= 2
    /\ \A i \in DOMAIN StartedCall.options : ~Blank(StartedCall.options[i])
    /\ ~HasDuplicate(StartedCall.options)
    /\ ~Blank(StartedCall.username)
    /\ Trim(StartedCall.username) \notin DOMAIN Doc.users

\* C17: with one request at a time, a createPoll with valid arguments and
\* a creator who is not a registered user fails with the does-not-exist
\* error and stores no poll: the document is unchanged.
C17_UnknownCreatorRejected ==
    [][CreateByStrangerStarts =>
          /\ pc' = pc
          /\ last'.res = CreatorDoesNotExist(Trim(StartedCall.username))
          /\ file' = file]_vars

\* A request starts while storage.json is absent or is not JSON.
StartsWithoutDocument == Starts /\ file.st # "json"

\* The document a first register(u) leaves: both collections, one user.
FirstDocument(u) == [users |-> (u :> [username |-> u]), polls |-> << >>]

\* C18: with one request at a time, while storage.json is absent, empty or
\* not JSON, findUser and getPollById return absent and getAllPolls returns
\* no poll, none of them failing; and when a register that found no
\* document returns, the file holds a document with both collections and
\* that user.
C18_BootstrapIsTransparent ==
    [][/\ StartsWithoutDocument =>
             /\ StartedCall.op \in {"findUser", "getPollById"} =>
                    last'.res = Ok({})
             /\ StartedCall.op = "getAllPolls" => last'.res = Ok({})
       /\ \A p \in Procs :
             (/\ pc[p] # "idle"
              /\ pc'[p] = "idle"
              /\ loc[p].call.op = "register"
              /\ loc[p].before = EmptyData) =>
                 /\ last'.res = Ok([username |-> loc[p].trimmed])
                 /\ file'.st = "json"
                 /\ ParsedData(file'.text) = FirstDocument(loc[p].trimmed)]_vars

\* The writeData of slot p completes in this step.
WriteCompletes(p) == pc[p] = "w_flush" /\ pc'[p] = "idle"

C20_StatusByCategory ==
    last.res.status = "err" =>
        LET call == last.call
            err  == last.res
        IN  /\ (call.op = "deletePoll"
                 /\ err = NotAuthorized(call.username, call.pollId))
                   => HttpStatus(err) = 403
            /\ (call.op = "register" /\ err = AlreadyTaken(Trim(call.username)))
                   => HttpStatus(err) = 400
            /\ (call.op = "vote"
                 /\ err = AlreadyVoted(Trim(call.username), call.pollId))
                   => HttpStatus(err) = 400
            /\ (call.op \in {"vote", "deletePoll"}
                 /\ err = PollNotFound(call.pollId))
                   => HttpStatus(err) = 404
            /\ (call.op = "vote" /\ err = UserNotFound(Trim(call.username)))
                   => HttpStatus(err) = 404
            /\ err.class # "BusinessLogicError" => HttpStatus(err) = 500

\* ---------------------------------------------------------------- C21
\* C21: whatever requests overlap, a service operation called with string
\* arguments that fails fails with a BusinessLogicError, which the error
\* middleware answers with 400, 403 or 404: a registration that loses the
\* race for a username, and a vote on a poll that is deleted meanwhile,
\* included.  No failure is a plain Error, answered with 500.
C21_FailuresAreBusinessErrors ==
    last.res.status = "err" =>
        /\ last.res.class = "BusinessLogicError"
        /\ HttpStatus(last.res) \in {400, 403, 404}

\* ---------------------------------------------------------------- C22
\* C22: whatever requests overlap, the service's deletePoll that returns
\* returns true: it never returns false, two overlapping deletions of one
\* poll by its creator included.
C22_DeleteNeverReturnsFalse ==
    (last.call.op = "deletePoll" /\ last.res.status = "ok") =>
        last.res.value = TRUE

\* ---------------------------------------------------------------- C23
\* C23: with one request at a time, a name that was never registered and an
\* id that was never created never resolve, names of properties that every
\* JavaScript object inherits ("constructor") included: findUser of such a
\* non-empty name returns absent, register of it does not fail, vote,
\* createPoll and getPollsByCreator with it fail (getPollsByCreator with
\* user-not-found); getPollById of such an id returns absent and deletePoll
\* of it fails, with poll-not-found when a username is given.
C23_NeverCreatedNeverResolves ==
    LET c == last.call
        r == last.res
    IN  /\ (c.op = "findUser" /\ c.username # <<>>
                              /\ c.username \notin registered)
               => r.value = {}
        /\ (c.op = "register" /\ TypeOf(c.username) = "string"
                              /\ Trim(c.username) # <<>>
                              /\ Trim(c.username) \notin registered)
               => r.status = "ok"
        /\ (c.op \in {"vote", "createPoll", "getPollsByCreator"}
                              /\ Trim(c.username) # <<>>
                              /\ Trim(c.username) \notin registered)
               => /\ r.status = "err"
                  /\ c.op = "getPollsByCreator"
                         => r = UserNotFound(Trim(c.username))
        /\ (c.op = "getPollById" /\ c.pollId \notin created)
               => r.value = {}
        /\ (c.op = "deletePoll" /\ c.pollId \notin created)
               => /\ r.status = "err"
                  /\ Trim(c.username) # <<>> => r = PollNotFound(c.pollId)

\* ---------------------------------------------------------------- C24
\* A query by creator or by voter is answered in this step.
QueryAnswered ==
    last'.call.op \in {"getPollsByCreator", "getPollsVotedInByUser"}

\* The answer the query of a registered user, or of a name whose trimmed
\* form is not registered, is to get from the stored polls.
QueryAnswer(call, polls) ==
    IF Trim(call.username) \notin registered
    THEN UserNotFound(Trim(call.username))
    ELSE IF call.op = "getPollsByCreator"
    THEN Ok({ poll \in polls : poll.creator = Trim(call.username) })
    ELSE Ok({ poll \in polls : Trim(call.username) \in DOMAIN poll.votes })

\* C24: with one request at a time, getPollsByCreator(u) of a registered u
\* returns exactly the stored polls whose creator is u, and
\* getPollsVotedInByUser(u) exactly those whose ledger has the key u (none:
\* the empty collection); for a name that is not a registered user both
\* fail with user-not-found; neither changes the document.
C24_QueriesFilterStoredPolls ==
    [][QueryAnswered =>
          /\ file' = file
          /\ last'.res = QueryAnswer(last'.call, GetAllPollsValues)]_vars

\* ---------------------------------------------------------------- C25
\* The username of the register call that starts in this step is empty,
\* whitespace only, or not a string.
InvalidRegisterStarts ==
    /\ RegisterStarts
    /\ \/ TypeOf(StartedCall.username) # "string"
       \/ Trim(StartedCall.username) = <<>>

\* C25: register with a username that is empty, whitespace only or not a
\* string (null, undefined, a number, an object) fails at once with
\* 'Username cannot be empty.' and the document is unchanged.
C25_InvalidUsernameRejected ==
    [][InvalidRegisterStarts =>
          /\ last'.res = UsernameEmpty
          /\ pc' = pc
          /\ file' = file]_vars

\* C25 witness: a number was sent as username and refused.
C25_Witness ==
    /\ last.call.op = "register"
    /\ last.call.username = JsNumber
    /\ last.res = UsernameEmpty

\* ---------------------------------------------------------------- C26
\* A createPoll of the PollManager is made in this step.
ManagerCreates == calls' = calls + 1 /\ answered'.call.op = "createPoll"

\* A question, ignoring case and surrounding whitespace
Folded(question) == ToLowerCase(Trim(question))

\* The PollManager stores a poll that was created with this question, up
\* to case and surrounding whitespace.
QuestionStored(question) ==
    \E id \in DOMAIN pollManager.polls :
        Folded(made[id].question) = Folded(question)

\* C26: PollManager questions are unique ignoring case and surrounding
\* whitespace: a createPoll whose question equals, up to case and
\* surrounding whitespace, the question of a stored poll throws 'A poll with
\* this question already exists' and adds no poll.
C26_QuestionsAreUnique ==
    [][(ManagerCreates /\ QuestionStored(answered'.call.question)) =>
          /\ answered'.res = DuplicateQuestion
          /\ pollManager'.polls = pollManager.polls]_vars

\* ---------------------------------------------------------------- C27
\* A vote of the PollManager on a stored poll is made in this step.
ManagerVotes ==
    /\ calls' = calls + 1
    /\ answered'.call.op = "vote"
    /\ answered'.call.pollId \in DOMAIN pollManager.polls

\* The options of the poll that the constructor would take the string for a
\* duplicate of: those equal to it after trimming.
SameOption(poll, string) ==
    { poll.options[i] : i \in { j \in 1..Len(poll.options) :
                                      poll.options[j] = Trim(string) } }

\* C27: Poll.vote resolves its argument as the constructor compares
\* options: a string equal after trimming to an option o is accepted and
\* adds one to the counter of o; a string that matches no option throws
\* 'Invalid poll option' and changes no counter.
C27_VoteComparesAsConstructor ==
    [][ManagerVotes =>
          LET id     == answered'.call.pollId
              string == answered'.call.option
              poll   == pollManager.polls[id]
          IN  IF SameOption(poll, string) # {}
              THEN /\ answered'.res.status = "ok"
                   /\ \A o \in SameOption(poll, string) :
                        \E n \in 0..MaxCalls :
                          /\ VotesProperty(poll.votes, o) = [number |-> n]
                          /\ VotesProperty(pollManager'.polls[id].votes, o)
                                 = [number |-> n + 1]
              ELSE /\ answered'.res = InvalidOption(string)
                   /\ pollManager'.polls = pollManager.polls]_vars

\* ---------------------------------------------------------------- C28
\* The vote calls on poll id that returned, and those of them whose
\* argument is the option.
VoteCallsReturned(id) ==
    FnSum([k \in { c \in DOMAIN cast : c[1] = id } |-> cast[k]])
VoteCallsFor(id, option) ==
    IF <<id, option>> \in DOMAIN cast THEN cast[<<id, option>>] ELSE 0

\* C28: getResults lists the options in the order they were given to the
\* constructor, each with the number of votes for it that returned, and
\* totalVotes is the sum of these counts and the number of vote calls on
\* the poll that did not throw.
C28_ResultsCountVotes ==
    (answered.call.op = "getResults" /\ answered.res.status = "ok") =>
        LET id    == answered.call.pollId
            r     == answered.res.value
            given == made[id].options
        IN  /\ Len(r.results) = Len(given)
            /\ \A i \in 1..Len(given) :
                 /\ r.results[i].option = Trim(given[i])
                 /\ r.results[i].votes =
                        [number |-> VoteCallsFor(id, Trim(given[i]))]
            /\ r.totalVotes =
                   FnSum([i \in 1..Len(given) |-> r.results[i].votes.number])
            /\ r.totalVotes = VoteCallsReturned(id)

\* ---------------------------------------------------------------- C29
\* The rules of Poll construction that the arguments violate, by their
\* number in the order: 1 question empty after trim, 2 fewer than two
\* options, 3 an option that is not a string, 4 options not unique after
\* trimming, 5 an option empty after trim.
ViolatedRules(question, options) ==
    { n \in 1..5 :
        \/ n = 1 /\ Trim(question) = <<>>
        \/ n = 2 /\ Len(options) < 2
        \/ n = 3 /\ \E i \in 1..Len(options) : TypeOf(options[i]) # "string"
        \/ n = 4 /\ \E i, j \in 1..Len(options) :
                        i < j /\ Trim(options[i]) = Trim(options[j])
        \/ n = 5 /\ \E i \in 1..Len(options) : Trim(options[i]) = <<>> }

RuleError == << QuestionEmpty, TooFewOptions, NotStrings, NotUnique,
                OptionEmpty >>

\* C29: Poll construction throws the error of the first rule violated, in
\* the order question empty, fewer than two options, an option that is not
\* a string, options not unique after trimming, an option empty after
\* trimming, and then no Poll is made; it makes the Poll when no rule is
\* violated.
C29_FirstViolatedRule ==
    [][ManagerCreates =>
          LET violated == ViolatedRules(answered'.call.question,
                                        answered'.call.options)
          IN  IF violated = {}
              THEN /\ answered'.res.status = "ok"
                   /\ answered'.res.value \in DOMAIN pollManager'.polls
              ELSE /\ answered'.res =
                          RuleError[CHOOSE n \in violated :
                                        \A m \in violated : n <= m]
                   /\ pollManager'.polls = pollManager.polls]_vars

\* C29 witness: two blank options violate the fourth and the fifth rule,
\* and the error is that of the fourth.
C29_Witness ==
    /\ answered.call.op = "createPoll"
    /\ ViolatedRules(answered.call.question, answered.call.options) = {4, 5}
    /\ answered.res = NotUnique

\* ---------------------------------------------------------------- C30
\* The validation rules the arguments of a createPoll violate: "question"
\* (empty), "count" (fewer than two options), "unique" (two options equal
\* after trimming), "strings" (an option that is not a string or is empty
\* after trimming).
ViolatedPollRules(call) ==
    { rule \in {"question", "count", "unique", "strings"} :
        \/ rule = "question" /\ Trim(call.question) = <<>>
        \/ rule = "count"    /\ Len(call.options) < 2
        \/ rule = "unique"   /\ HasDuplicate(call.options)
        \/ rule = "strings"  /\ \E i \in DOMAIN call.options :
                                   \/ TypeOf(call.options[i]) # "string"
                                   \/ Trim(call.options[i]) = <<>> }

PollRuleMessage(rule) ==
    CASE rule = "question" -> "Poll question cannot be empty."
      [] rule = "count"    -> "Poll must have at least two options."
      [] rule = "unique"   -> "Poll options must be unique."
      [] rule = "strings"  -> "All poll options must be non-empty strings."

\* The first rule of the order that is among the violated ones
FirstOf(order, violated) ==
    order[CHOOSE i \in DOMAIN order :
              /\ order[i] \in violated
              /\ \A j \in 1..(i - 1) : order[j] \notin violated]

DocumentFound == IF pc[1] = "idle" THEN ReadData ELSE loc[1].before

\* What a vote with all its arguments given is to answer on the document:
\* the error of the first precondition that fails, in the order poll not
\* found, user not found, invalid option index, already voted; {} when all
\* hold.
FirstVoteFailure(call, data) ==
    IF call.pollId \notin DOMAIN data.polls
    THEN {PollNotFound(call.pollId)}
    ELSE IF Trim(call.username) \notin DOMAIN data.users
    THEN {UserNotFound(Trim(call.username))}
    ELSE IF NotAnOption(call.optionIndex, data.polls[call.pollId])
    THEN {InvalidIndex(call.optionIndex, call.pollId)}
    ELSE IF Trim(call.username) \in DOMAIN data.polls[call.pollId].votes
    THEN {AlreadyVoted(Trim(call.username), call.pollId)}
    ELSE {}

\* A vote with all its arguments given is answered in this step.
VoteAnswered ==
    /\ last'.call.op = "vote"
    /\ last'.call.optionIndex # Undefined
    /\ last'.call.username # <<>>

\* C31: with one request at a time, a vote with all its arguments given
\* reports the first precondition that fails, in the order poll not found,
\* user not found, invalid option index, already voted, and then writes
\* nothing; it returns when none fails.
C31_VoteReportsFirstFailure ==
    [][VoteAnswered =>
          LET failure == FirstVoteFailure(last'.call, DocumentFound)
          IN  IF failure = {}
              THEN last'.res.status = "ok"
              ELSE /\ last'.res \in failure
                   /\ pc[1] # "w_flush"
                   /\ file' = file]_vars

\* ---------------------------------------------------------------- C32
\* The store call that returns or throws in this step, and the document
\* it found.
StoreAnswers(op) == last'.call.op = op
DocumentAfter == IF file'.st = "json" THEN ParsedData(file'.text) ELSE EmptyData
\* fields merged into the stored poll: the ledger is replaced only by one
\* in mapping form.
FieldsMerged(poll, fields) ==
    [f \in DOMAIN poll \cup DOMAIN fields |->
        IF f = "votes"
        THEN IF "votes" \in DOMAIN fields /\ fields.votes.map
             THEN fields.votes.entries
             ELSE poll.votes
        ELSE IF f \in DOMAIN fields THEN fields[f] ELSE poll[f]]

\* C32: store updatePoll(id, fields) of a stored poll returns and stores
\* the poll with the fields merged in, its ledger kept unless fields
\* carries one in mapping form, every other poll and every user unchanged;
\* when no poll with that id is stored it throws and writes nothing.
C32_UpdateMergesOrFails ==
    [][StoreAnswers("storage.updatePoll") =>
          LET before == loc[1].before
              id     == last'.call.pollId
          IN  IF id \in DOMAIN before.polls
              THEN LET merged == FieldsMerged(before.polls[id], last'.call.fields)
                   IN  /\ last'.res = Ok(merged)
                       /\ DocumentAfter = [before EXCEPT !.polls[id] = merged]
              ELSE /\ last'.res.status = "err"
                   /\ pc[1] # "w_flush"
                   /\ file' = file]_vars

\* ---------------------------------------------------------------- C33
\* C33: store deletePoll(id) of a stored poll returns true and leaves the
\* document without that poll and otherwise as it was; when no poll with
\* that id is stored it returns false and writes nothing.
C33_DeleteRemovesOrReturnsFalse ==
    [][StoreAnswers("storage.deletePoll") =>
          LET before == loc[1].before
              id     == last'.call.pollId
          IN  IF id \in DOMAIN before.polls
              THEN /\ last'.res = Ok(TRUE)
                   /\ DocumentAfter =
                        [before EXCEPT !.polls =
                            [k \in DOMAIN before.polls \ {id} |-> before.polls[k]]]
              ELSE /\ last'.res = Ok(FALSE)
                   /\ pc[1] # "w_flush"
                   /\ file' = file]_vars

\* ---------------------------------------------------------------- C34
\* The ids that createPoll of the PollManager has returned.
IdsReturned == DOMAIN made

\* C34: a createPoll of the PollManager that returns, returns an integer
\* that is at least 1 and greater than every id returned before, and the
\* Poll is stored under it with that id; one that fails the validation of
\* the Poll stores nothing and consumes an id; one that fails for a
\* duplicate question consumes none; every stored Poll has its key as id.
C34_IdsAreUniqueAndGrow ==
    [][ManagerCreates =>
          /\ IF answered'.res.status = "ok"
             THEN LET id == answered'.res.value
                  IN  /\ id \in Nat /\ id >= 1
                      /\ calls = 0 => id = 1
                      /\ \A earlier \in IdsReturned : id > earlier
                      /\ DOMAIN pollManager'.polls =
                            DOMAIN pollManager.polls \cup {id}
                      /\ id \notin DOMAIN pollManager.polls
                      /\ pollManager'.counter > id
             ELSE /\ pollManager'.polls = pollManager.polls
                  /\ pollManager'.counter =
                        IF answered'.res = DuplicateQuestion
                        THEN pollManager.counter
                        ELSE pollManager.counter + 1
          /\ \A k \in DOMAIN pollManager'.polls :
                PollProperty(pollManager'.polls[k], "id") = {k}]_vars

\* A createPoll failed the validation of the Poll and a later one
\* returned: the stored ids are not contiguous.
C34_Witness ==
    \E k \in DOMAIN pollManager.polls :
        /\ k > 1
        /\ k - 1 \notin DOMAIN pollManager.polls
        /\ answered.call.op = "createPoll"
        /\ answered.res = Ok(k)

\* ---------------------------------------------------------------- C35
\* The poll that the store makes of pollData: its id, question, options
\* and creator, and an empty ledger.
CreatedFrom(pollData) ==
    [id |-> pollData.id, question |-> pollData.question,
     options |-> pollData.options, creator |-> pollData.creator,
     votes |-> << >>]

\* C35: store createPoll(pollData) returns the poll made of pollData with
\* an empty ledger, whether or not a poll is stored under that id, and
\* leaves a document that holds it under its id, every other poll and
\* every user as before.
C35_CreateAddsOrReplaces ==
    [][StoreAnswers("storage.createPoll") =>
          LET before == loc[1].before
              poll   == CreatedFrom(last'.call.pollData)
          IN  /\ last'.res = Ok(poll)
              /\ DocumentAfter.users = before.users
              /\ DOMAIN DocumentAfter.polls = DOMAIN before.polls \cup {poll.id}
              /\ DocumentAfter.polls[poll.id] = poll
              /\ \A k \in DOMAIN before.polls \ {poll.id} :
                    DocumentAfter.polls[k] = before.polls[k]]_vars

\* ---------------------------------------------------------------- C36
\* The id, question, options and creator of a poll.
Identity(poll) ==
    [f \in {"id", "question", "options", "creator"} |-> poll[f]]

\* C36: every poll that the document holds under a key k has the id k and
\* the question, options and creator that createPoll handed to the store
\* for that id.
C36_StoredPollsKeepTheirIdentity ==
    \A k \in DOMAIN Doc.polls :
        /\ Doc.polls[k].id = k
        /\ k \in DOMAIN createdWith
        /\ Identity(Doc.polls[k]) = Identity(createdWith[k])

\* A poll is stored with a vote after requests that overlapped: one of
\* them read the file while another was writing it.
C36_Witness ==
    /\ \E k \in DOMAIN Doc.polls : Doc.polls[k].votes # << >>
    /\ torn
    /\ \A p \in Procs : pc[p] = "idle"

\* ---------------------------------------------------------------- C37
\* The document that holds the change of a store call and nothing else.
OnlyChange(call) ==
    IF call.op = "storage.createUser"
    THEN [users |-> (call.username :> [username |-> call.username]),
          polls |-> << >>]
    ELSE [users |-> << >>,
          polls |-> (call.pollData.id :> CreatedFrom(call.pollData))]

\* C37: a store createUser or createPoll that reads a file that does not
\* parse goes on to write, without an error, the document that holds its
\* own change and nothing else, and returns.
C37_LostDocumentIsOverwritten ==
    [][loc[1].call.op \in {"storage.createUser", "storage.createPoll"} =>
          /\ (pc[1] \in {"reg_create", "cp_read"} /\ file.st = "bad") =>
                /\ pc'[1] = "w_open"
                /\ loc'[1].data = OnlyChange(loc[1].call)
          /\ (pc[1] = "w_flush" /\ loc[1].data = OnlyChange(loc[1].call)) =>
                /\ last'.res.status = "ok"
                /\ DocumentAfter = OnlyChange(loc[1].call)]_vars

====
